---- MODULE Spec2Model ----
(***************************************************************************)
(* Search retry/fallback flow of PremiumMusicPlayer                        *)
(* (static/js/player.js).  Strings are sequences of one-character strings  *)
(* so that trim, toLowerCase, includes, startsWith, substring and the two  *)
(* regular-expression replacements are computed as the code computes them. *)
(***************************************************************************)
EXTENDS Integers, Sequences, FiniteSets, TLC

(***************************************************************************)
(* String helpers (JavaScript String methods used by the search flow).     *)
(***************************************************************************)
Min(a, b) == IF a <= b THEN a ELSE b

RECURSIVE Pow2(_)
Pow2(n) == IF n <= 0 THEN 1 ELSE 2 * Pow2(n - 1)

UpperChars == <<"A","B","C","D","E","F","G","H","I","J","K","L","M",
                "N","O","P","Q","R","S","T","U","V","W","X","Y","Z">>

LowerChars == <<"a","b","c","d","e","f","g","h","i","j","k","l","m",
                "n","o","p","q","r","s","t","u","v","w","x","y","z">>

UpperSet == {UpperChars[k] : k \in 1..Len(UpperChars)}

LowerChar(c) ==
    IF c \in UpperSet
    THEN LowerChars[CHOOSE k \in 1..Len(UpperChars) : UpperChars[k] = c]
    ELSE c

toLowerCase(s) == [k \in 1..Len(s) |-> LowerChar(s[k])]

WhiteSpace == {" ", "\t", "\n", "\r"}

LineTerminators == {"\n", "\r"}

RECURSIVE trimStart(_)
trimStart(s) ==
    IF s # <<>> /\ Head(s) \in WhiteSpace THEN trimStart(Tail(s)) ELSE s

RECURSIVE trimEnd(_)
trimEnd(s) ==
    IF s # <<>> /\ s[Len(s)] \in WhiteSpace
    THEN trimEnd(SubSeq(s, 1, Len(s) - 1))
    ELSE s

trim(s) == trimEnd(trimStart(s))

includes(s, sub) ==
    LET str == s
        pat == sub
    IN  \E k \in 0..(Len(str) - Len(pat)) :
            \A j \in 1..Len(pat) : str[k + j] = pat[j]

startsWith(s, p) ==
    LET str == s
        pat == p
    IN  Len(pat) <= Len(str) /\ \A j \in 1..Len(pat) : str[j] = pat[j]

substring(s, from) == SubSeq(s, from + 1, Len(s))

\* s.replace(/<open>.*?\)/gi, ''): every leftmost, shortest match of the
\* opening text (compared case-insensitively) up to the first ")" that no
\* line terminator precedes is removed; the scan resumes after the match.
RECURSIVE replaceSegment(_, _)
replaceSegment(s, open) ==
    IF s = <<>> THEN <<>>
    ELSE LET stops == {k \in (Len(open) + 1)..Len(s) :
                          s[k] \in ({")"} \cup LineTerminators)}
             first == CHOOSE k \in stops : \A j \in stops : k <= j
         IN  IF /\ Len(open) <= Len(s)
                /\ toLowerCase(SubSeq(s, 1, Len(open))) = open
                /\ stops # {}
                /\ s[first] = ")"
             THEN replaceSegment(SubSeq(s, first + 1, Len(s)), open)
             ELSE <<Head(s)>> \o replaceSegment(Tail(s), open)

\* [...new Set(list)]: first occurrences, in insertion order.
RECURSIVE uniqueInOrder(_)
uniqueInOrder(list) ==
    IF list = <<>> THEN <<>>
    ELSE LET front == uniqueInOrder(SubSeq(list, 1, Len(list) - 1))
             last  == list[Len(list)]
         IN  IF \E k \in 1..Len(front) : front[k] = last
             THEN front
             ELSE Append(front, last)

(***************************************************************************)
(* generateAlternativeQueries                                              *)
(***************************************************************************)
suffixes ==
    << <<"s","o","n","g">>,
       <<"a","u","d","i","o">>,
       <<"l","y","r","i","c","s">>,
       <<"m","u","s","i","c"," ","v","i","d","e","o">>,
       <<"o","f","f","i","c","i","a","l"," ","a","u","d","i","o">>,
       <<"o","f","f","i","c","i","a","l"," ","v","i","d","e","o">> >>

prefixes ==
    << <<"s","o","n","g">>,
       <<"a","u","d","i","o">>,
       <<"l","y","r","i","c","s">>,
       <<"m","u","s","i","c">>,
       <<"v","i","d","e","o">> >>

featOpen == <<"(","f","e","a","t",".">>

withOpen == <<"(","w","i","t","h">>

\* the suffix loop: query + ' ' + suffix for every suffix the lower-cased
\* query does not contain
withSuffixes(query) ==
    LET lowered == toLowerCase(query)
        missing == SelectSeq(suffixes,
                             LAMBDA suffix : ~includes(lowered, toLowerCase(suffix)))
    IN  [k \in 1..Len(missing) |-> query \o <<" ">> \o missing[k]]

\* the prefix loop: the text after the first listed prefix the query starts
\* with, trimmed; the query itself when it starts with none
cleanedQuery(query) ==
    LET lowered == toLowerCase(query)
        hits == {k \in 1..Len(prefixes) :
                    startsWith(lowered, toLowerCase(prefixes[k]) \o <<" ">>)}
        first == CHOOSE k \in hits : \A j \in hits : k <= j
    IN  IF hits = {} THEN query
        ELSE trim(substring(query, Len(prefixes[first]) + 1))

withoutFeatured(query) ==
    trim(replaceSegment(replaceSegment(query, featOpen), withOpen))

\* the variant without the featured artists pushed before the variant
\* without the prefix
generateAlternativeQueriesFeatFirst(query) ==
    LET cleaned == cleanedQuery(query)
        noFeat  == withoutFeatured(query)
    IN  uniqueInOrder(
            <<query>>
            \o withSuffixes(query)
            \o (IF noFeat # query THEN <<noFeat>> ELSE <<>>)
            \o (IF cleaned # query THEN <<cleaned>> ELSE <<>>))

generateAlternativeQueries(query) ==
    LET cleaned == cleanedQuery(query)
        noFeat  == withoutFeatured(query)
    IN  uniqueInOrder(
            <<query>>
            \o withSuffixes(query)
            \o (IF cleaned # query THEN <<cleaned>> ELSE <<>>)
            \o (IF noFeat # query THEN <<noFeat>> ELSE <<>>))

(***************************************************************************)
(* Bounds and inputs                                                       *)
(***************************************************************************)
\* search() invocations that may be suspended at the same time
MaxInvocations == 2

\* the same, in the specification of heavily overlapping searches
MaxOverlap == 4

\* the same, in the specification of the page's controls
MaxPageInvocations == 1

\* how many entries of trendingQueries the random choice ranges over
MaxTrending == 1

\* "song official audio music video official video": every suffix but
\* "lyrics" is present and the text starts with the prefix "song "
QueryA ==
    <<"s","o","n","g"," ">> \o suffixes[5] \o <<" ">> \o suffixes[4]
        \o <<" ">> \o suffixes[6]

\* "lyrics song music video official audio official video (Feat. y)":
\* every suffix is present, a prefix and a featured-artist segment
QueryB ==
    <<"l","y","r","i","c","s"," ","s","o","n","g"," ">> \o suffixes[4]
        \o <<" ">> \o suffixes[5] \o <<" ">> \o suffixes[6]
        \o <<" ","(","F","e","a","t","."," ","y",")">>

QueryC == <<"a","b">>

\* "(feat. y)": nothing but a featured-artist segment
QueryD == <<"(","f","e","a","t","."," ","y",")">>

Blank == <<" ">>

\* search(query = null): null and '' both fall through `query || ...`
NoArg == <<>>

\* arguments handed to search(query) by a direct call
QueryArgs == {QueryA, QueryB}

\* outcomes of one fetch of /api/search: the fetch or response.json()
\* rejects ("net"), the status is not 2xx ("http"), the body says
\* success = false ("api"), success with no results ("empty"), success with
\* a non-empty list ("results")
Errors == {"net", "http", "api"}

Responses == {"http", "api", "empty", "results"}

trendingQueries ==
    << <<"t","o","p"," ","s","o","n","g","s"," ","2","0","2","4">>,
       <<"l","a","t","e","s","t"," ","m","u","s","i","c">>,
       <<"p","o","p","u","l","a","r"," ","s","o","n","g","s">>,
       <<"t","r","e","n","d","i","n","g"," ","m","u","s","i","c">>,
       <<"b","i","l","l","b","o","a","r","d"," ","t","o","p"," ","1","0","0">>,
       <<"v","i","r","a","l"," ","s","o","n","g","s">>,
       <<"n","e","w"," ","r","e","l","e","a","s","e","s">> >>

(***************************************************************************)
(* Program constants                                                       *)
(***************************************************************************)
maxSearchRetries == 3

BaseDelayMs == 1000

MaxDelayMs == 5000

(***************************************************************************)
(* State                                                                   *)
(***************************************************************************)
VARIABLES
    lastSearchQuery,   \* this.lastSearchQuery
    searchRetryCount,  \* this.searchRetryCount
    searchTimeout,     \* TRUE while the debounce timer is pending
    searchInput,       \* value of #search-input
    loading,           \* argument of the last showLoading call
    results,           \* content of #search-results
    searchBtn,         \* innerHTML and disabled flag of #search-btn
    pc,                \* where each search() invocation is suspended
    queryText,         \* search(): const queryText
    reqQuery,          \* performSearch(): parameter queryText of the pending request
    response,          \* the outcome of the pending request, once it has arrived
    originalHtml,      \* performSearch(): const originalHtml
    error,             \* handleSearchError(): parameter error
    delay,             \* handleSearchError(): const delay
    remaining,         \* time left on the invocation's backoff timer
    alternativeQueries,\* handleSearchError(): const alternativeQueries
    altIdx,            \* position of the for-of loop in alternativeQueries
    lyrics,            \* LyricsManager: this.lyrics
    syncedLyrics,      \* LyricsManager: this.syncedLyrics
    currentLine,       \* LyricsManager: this.currentLine
    isSynced,          \* LyricsManager: this.isSynced
    lyricsOffset,      \* LyricsManager: this.lyricsOffset, in tenths of a second
    lyricsContainer,   \* content of #lyrics-content
    lyricsCache,       \* localStorage entry written by saveLyricsToCache
    lyricsPc,          \* where the fetchLyrics invocation is suspended
    call,              \* the last LyricsManager call: what it was given and gave back
    analyser,          \* AudioVisualizer: this.analyser is not null
    source,            \* AudioVisualizer: this.source is not null
    isPlaying,         \* AudioVisualizer: this.isPlaying
    animationId,       \* AudioVisualizer: this.animationId (NoAnimationId for null)
    pendingFrames,     \* handles of the animation-frame callbacks that are pending
    lastFrameHandle,   \* the handle requestAnimationFrame returned last
    visualizerCall     \* the last AudioVisualizer call and the method it ran

searchVars == <<lastSearchQuery, searchRetryCount, searchTimeout, searchInput,
                loading, results, searchBtn, pc, queryText, reqQuery, response,
                originalHtml, error, delay, remaining, alternativeQueries,
                altIdx>>

lyricsVars == <<lyrics, syncedLyrics, currentLine, isSynced, lyricsOffset,
                lyricsContainer, lyricsCache, lyricsPc, call>>

visualizerVars == <<analyser, source, isPlaying, animationId, pendingFrames,
                    lastFrameHandle, visualizerCall>>

vars == <<searchVars, lyricsVars, visualizerVars>>

\* what a step of the search flow, of the lyrics panel, of the visualizer
\* leaves alone
besideSearch == <<lyricsVars, visualizerVars>>

besideLyrics == <<searchVars, visualizerVars>>

besideVisualizer == <<searchVars, lyricsVars>>

sessionVars == <<lastSearchQuery, searchRetryCount, loading, results,
                 searchBtn, pc, queryText, reqQuery, response, originalHtml,
                 error, delay, remaining, alternativeQueries, altIdx>>

\* the slots that hold the locals of the suspended invocations
Slots == DOMAIN pc

Active == {i \in Slots : pc[i] # "idle"}

EmptyView == [view |-> "empty", query |-> <<>>, error |-> "none"]

SearchIcon == [html |-> "search", disabled |-> FALSE]

Spinner == [html |-> "spinner", disabled |-> TRUE]

\* #lyrics-content before anything is displayed
EmptyContainer == [kind |-> "text", body |-> <<>>, active |-> -1]

\* no entry in localStorage
NoCache == [present |-> FALSE, lyrics |-> <<>>, isSynced |-> FALSE,
            syncedLyrics |-> <<>>]

NoCall == [op |-> "none", arg |-> <<>>, ret |-> <<>>]

\* this.animationId = null; the handles of requestAnimationFrame are positive
NoAnimationId == 0

InitWith(n) ==
    /\ lastSearchQuery = <<>>
    /\ searchRetryCount = 0
    /\ searchTimeout = FALSE
    /\ searchInput = <<>>
    /\ loading = FALSE
    /\ results = EmptyView
    /\ searchBtn = SearchIcon
    /\ pc = [i \in 1..n |-> "idle"]
    /\ queryText = [i \in 1..n |-> <<>>]
    /\ reqQuery = [i \in 1..n |-> <<>>]
    /\ response = [i \in 1..n |-> "none"]
    /\ originalHtml = [i \in 1..n |-> "none"]
    /\ error = [i \in 1..n |-> "none"]
    /\ delay = [i \in 1..n |-> 0]
    /\ remaining = [i \in 1..n |-> 0]
    /\ alternativeQueries = [i \in 1..n |-> <<>>]
    /\ altIdx = [i \in 1..n |-> 0]
    /\ lyrics = <<>>
    /\ syncedLyrics = <<>>
    /\ currentLine = -1
    /\ isSynced = FALSE
    /\ lyricsOffset = 0
    /\ lyricsContainer = EmptyContainer
    /\ lyricsCache = NoCache
    /\ lyricsPc = "idle"
    /\ call = NoCall
    /\ analyser = FALSE
    /\ source = FALSE
    /\ isPlaying = FALSE
    /\ animationId = NoAnimationId
    /\ pendingFrames = {}
    /\ lastFrameHandle = 0
    /\ visualizerCall = [op |-> "none", ran |-> "none"]

Init == InitWith(MaxInvocations)

(***************************************************************************)
(* performSearch: entry, normal return and throw                           *)
(***************************************************************************)
\* performSearch up to `await fetch(url)`: the button content is saved in
\* originalHtml and replaced by the spinner, then the request for q is sent.
\* btn is the button as the caller left it.
PerformSearchEnter(i, q, btn) ==
    /\ originalHtml' = [originalHtml EXCEPT ![i] = btn.html]
    /\ searchBtn' = Spinner
    /\ reqQuery' = [reqQuery EXCEPT ![i] = q]
    /\ response' = [response EXCEPT ![i] = "pending"]

\* the network: the pending request of invocation i is answered with r
Respond(i, r) ==
    /\ pc[i] \in {"primary", "alt"}
    /\ response[i] = "pending"
    /\ response' = [response EXCEPT ![i] = r]
    /\ UNCHANGED <<lastSearchQuery, searchRetryCount, searchTimeout, searchInput,
                   loading, results, searchBtn, pc, queryText, reqQuery,
                   originalHtml, error, delay, remaining, alternativeQueries,
                   altIdx>>

arrived(i) == response[i] \notin {"none", "pending"}

\* performSearch that takes an empty result list for a failure
classifyEmptyFails(r) ==
    IF r \in Errors \/ r = "empty" THEN "throw"
    ELSE "results"

\* how performSearch leaves for a response: "throw" for a rejected fetch, a
\* non-2xx status or success = false; otherwise what it displays
classify(r) ==
    IF r \in Errors THEN "throw"
    ELSE IF r = "results" THEN "results"
    ELSE "noresults"

\* backoff whose exponent is the attempt number itself
backoffDelayFromAttempt(attempt) ==
    Min(BaseDelayMs * Pow2(attempt), MaxDelayMs)

\* exponential backoff before the retry round
backoffDelay(attempt) ==
    Min(BaseDelayMs * Pow2(attempt - 1), MaxDelayMs)

\* the invocation has returned from search(): finally { showLoading(false) };
\* its locals are gone
Finish(i) ==
    /\ loading' = FALSE
    /\ pc' = [pc EXCEPT ![i] = "idle"]
    /\ queryText' = [queryText EXCEPT ![i] = <<>>]
    /\ reqQuery' = [reqQuery EXCEPT ![i] = <<>>]
    /\ response' = [response EXCEPT ![i] = "none"]
    /\ originalHtml' = [originalHtml EXCEPT ![i] = "none"]
    /\ error' = [error EXCEPT ![i] = "none"]
    /\ delay' = [delay EXCEPT ![i] = 0]
    /\ alternativeQueries' = [alternativeQueries EXCEPT ![i] = <<>>]
    /\ altIdx' = [altIdx EXCEPT ![i] = 0]

\* performSearch that drops the response of a query that is no longer the
\* last one searched
PerformSearchReturnsIfCurrent(i) ==
    /\ classify(response[i]) # "throw"
    /\ searchRetryCount' = 0
    /\ results' = IF queryText[i] = lastSearchQuery
                  THEN [view |-> classify(response[i]), query |-> reqQuery[i],
                        error |-> "none"]
                  ELSE results
    /\ searchBtn' = [html |-> originalHtml[i], disabled |-> FALSE]
    /\ Finish(i)
    /\ UNCHANGED <<lastSearchQuery, searchTimeout, searchInput, remaining>>

\* performSearch returns normally: button restored from originalHtml, the
\* retry counter reset, results or the no-results view displayed; the
\* caller (search, or handleSearchError's loop) returns.
PerformSearchReturns(i) ==
    /\ classify(response[i]) # "throw"
    /\ searchRetryCount' = 0
    /\ results' = [view |-> classify(response[i]), query |-> reqQuery[i],
                   error |-> "none"]
    /\ searchBtn' = [html |-> originalHtml[i], disabled |-> FALSE]
    /\ Finish(i)
    /\ UNCHANGED <<lastSearchQuery, searchTimeout, searchInput, remaining>>

\* displaySearchError(query, error), then search() returns
DisplaySearchError(i, err) ==
    /\ results' = [view |-> "error", query |-> queryText[i], error |-> err]
    /\ Finish(i)

(***************************************************************************)
(* search(query)                                                           *)
(***************************************************************************)
\* the guard of line 22
isDuplicate(q) == q = lastSearchQuery /\ searchRetryCount > 0

\* const queryText = query || searchInput.value.trim()
effectiveQuery(arg, inputValue) == IF arg # <<>> THEN arg ELSE trim(inputValue)

\* the slot that takes the locals of a new invocation
freeSlot == CHOOSE i \in Slots \ Active : \A j \in Slots \ Active : i <= j

\* search(arg) with the input field holding inputValue
Search(arg, inputValue) ==
    LET q == effectiveQuery(arg, inputValue)
    IN  IF q = <<>> \/ Len(q) < 1
        THEN UNCHANGED sessionVars
        ELSE IF isDuplicate(q)
        THEN UNCHANGED sessionVars
        ELSE /\ Active # Slots
             /\ lastSearchQuery' = q
             /\ loading' = TRUE
             /\ searchRetryCount' = 0
             /\ results' = EmptyView
             /\ queryText' = [queryText EXCEPT ![freeSlot] = q]
             /\ pc' = [pc EXCEPT ![freeSlot] = "primary"]
             /\ PerformSearchEnter(freeSlot, q, searchBtn)
             /\ UNCHANGED <<error, delay, remaining, alternativeQueries, altIdx>>

\* player.search(query) called directly
SearchCall(arg) ==
    /\ Search(arg, searchInput)
    /\ UNCHANGED <<searchInput, searchTimeout>>

\* click on #search-btn (a disabled button receives no click)
SearchBtnClick ==
    /\ ~searchBtn.disabled
    /\ Search(NoArg, searchInput)
    /\ UNCHANGED <<searchInput, searchTimeout>>

\* 'input' event: the debounce timer is restarted for 2 or more characters,
\* the results are cleared when the field is empty
InputEvent(v) ==
    /\ searchInput' = v
    /\ searchTimeout' = (Len(trim(v)) >= 2)
    /\ results' = IF Len(trim(v)) = 0 THEN EmptyView ELSE results
    /\ UNCHANGED <<lastSearchQuery, searchRetryCount, loading, searchBtn,
                   pc, queryText, reqQuery, response, originalHtml, error,
                   delay, remaining, alternativeQueries, altIdx>>

\* the debounce timer fires: this.search()
DebounceFire ==
    /\ searchTimeout
    /\ searchTimeout' = FALSE
    /\ Search(NoArg, searchInput)
    /\ UNCHANGED searchInput

\* recognition.onresult: the transcript is put in the field and searched
VoiceResult(transcript) ==
    /\ searchInput' = transcript
    /\ Search(transcript, transcript)
    /\ UNCHANGED searchTimeout

\* "Retry Search" button of the error view
RetrySearch ==
    /\ results.view = "error"
    /\ searchInput' = results.query
    /\ Search(results.query, results.query)
    /\ UNCHANGED searchTimeout

\* "Show Trending" button of the no-results and error views
SearchTrending(k) ==
    /\ results.view \in {"noresults", "error"}
    /\ searchInput' = trendingQueries[k]
    /\ Search(trendingQueries[k], trendingQueries[k])
    /\ UNCHANGED searchTimeout

\* "Clear" button of the error view
ClearSearch ==
    /\ results.view = "error"
    /\ searchInput' = <<>>
    /\ results' = EmptyView
    /\ UNCHANGED <<lastSearchQuery, searchRetryCount, searchTimeout, loading,
                   searchBtn, pc, queryText, reqQuery, response, originalHtml,
                   error, delay, remaining, alternativeQueries, altIdx>>

(***************************************************************************)
(* The primary request fails: search()'s catch, handleSearchError          *)
(***************************************************************************)
HandleSearchError(i, err) ==
    /\ searchRetryCount' = searchRetryCount + 1
    /\ IF searchRetryCount + 1 <= maxSearchRetries
       THEN /\ error' = [error EXCEPT ![i] = err]
            /\ delay' = [delay EXCEPT ![i] = backoffDelay(searchRetryCount + 1)]
            /\ remaining' = [remaining EXCEPT
                               ![i] = backoffDelay(searchRetryCount + 1)]
            /\ pc' = [pc EXCEPT ![i] = "backoff"]
            /\ reqQuery' = [reqQuery EXCEPT ![i] = <<>>]
            /\ response' = [response EXCEPT ![i] = "none"]
            /\ originalHtml' = [originalHtml EXCEPT ![i] = "none"]
            /\ UNCHANGED <<loading, results, queryText, alternativeQueries,
                           altIdx>>
       ELSE /\ DisplaySearchError(i, err)
            /\ UNCHANGED remaining

PrimaryThrows(i) ==
    /\ classify(response[i]) = "throw"
    /\ searchBtn' = SearchIcon
    /\ HandleSearchError(i, response[i])
    /\ UNCHANGED <<lastSearchQuery, searchTimeout, searchInput>>

\* the response of the primary request is handled
PrimaryResponse(i) ==
    /\ pc[i] = "primary"
    /\ arrived(i)
    /\ \/ PerformSearchReturns(i)
       \/ PrimaryThrows(i)

(***************************************************************************)
(* Backoff timer                                                           *)
(***************************************************************************)
\* BaseDelayMs of time passes
Tick ==
    /\ \E i \in Slots : pc[i] = "backoff" /\ remaining[i] > 0
    /\ remaining' = [i \in Slots |->
                        IF remaining[i] > BaseDelayMs
                        THEN remaining[i] - BaseDelayMs ELSE 0]
    /\ UNCHANGED <<lastSearchQuery, searchRetryCount, searchTimeout, searchInput,
                   loading, results, searchBtn, pc, queryText, reqQuery,
                   response, originalHtml, error, delay, alternativeQueries,
                   altIdx>>

\* the timer may fire once nothing is left of the delay
timerElapsed(i) == remaining[i] = 0

\* the timeout resolves: the alternatives are generated and the first one
\* is requested
TimerFire(i) ==
    /\ pc[i] = "backoff"
    /\ timerElapsed(i)
    /\ pc' = [pc EXCEPT ![i] = "alt"]
    /\ alternativeQueries' = [alternativeQueries EXCEPT
                                ![i] = generateAlternativeQueries(queryText[i])]
    /\ altIdx' = [altIdx EXCEPT ![i] = 1]
    /\ PerformSearchEnter(i, generateAlternativeQueries(queryText[i])[1], searchBtn)
    /\ UNCHANGED <<lastSearchQuery, searchRetryCount, searchTimeout, searchInput,
                   loading, results, queryText, error, delay, remaining>>

(***************************************************************************)
(* The for-of loop over the alternative queries                            *)
(***************************************************************************)
\* catch (e) after which the loop requests the same alternative again
AltThrowsSameQuery(i) ==
    /\ classify(response[i]) = "throw"
    /\ PerformSearchEnter(i, alternativeQueries[i][altIdx[i]], SearchIcon)
    /\ UNCHANGED <<lastSearchQuery, searchRetryCount, searchTimeout, searchInput,
                   loading, results, pc, queryText, error, delay, remaining,
                   alternativeQueries, altIdx>>

\* catch (e) that also counts the failed alternative as an attempt
AltThrowsCounting(i) ==
    /\ classify(response[i]) = "throw"
    /\ searchRetryCount' = searchRetryCount + 1
    /\ IF altIdx[i] < Len(alternativeQueries[i])
       THEN /\ altIdx' = [altIdx EXCEPT ![i] = @ + 1]
            /\ PerformSearchEnter(i, alternativeQueries[i][altIdx[i] + 1], SearchIcon)
            /\ UNCHANGED <<loading, results, pc, queryText, error, delay,
                           alternativeQueries>>
       ELSE /\ searchBtn' = SearchIcon
            /\ DisplaySearchError(i, error[i])
    /\ UNCHANGED <<lastSearchQuery, searchTimeout, searchInput, remaining>>

\* catch (e) { continue; }: the next alternative is requested, or, once the
\* list is used up, displaySearchError(queryText, error) with
\* handleSearchError's own parameter error
AltThrows(i) ==
    /\ classify(response[i]) = "throw"
    /\ UNCHANGED searchRetryCount
    /\ IF altIdx[i] < Len(alternativeQueries[i])
       THEN /\ altIdx' = [altIdx EXCEPT ![i] = @ + 1]
            /\ PerformSearchEnter(i, alternativeQueries[i][altIdx[i] + 1], SearchIcon)
            /\ UNCHANGED <<loading, results, pc, queryText, error, delay,
                           alternativeQueries>>
       ELSE /\ searchBtn' = SearchIcon
            /\ DisplaySearchError(i, error[i])
    /\ UNCHANGED <<lastSearchQuery, searchTimeout, searchInput, remaining>>

AltResponse(i) ==
    /\ pc[i] = "alt"
    /\ arrived(i)
    /\ \/ PerformSearchReturns(i)
       \/ AltThrows(i)

(***************************************************************************)
(* LyricsManager: time-tagged sources                                      *)
(***************************************************************************)
\* one second, in the unit of time of the model (a tenth of a second)
Second == 10

\* a line "[minutes:seconds]text" of a time-tagged source, which the pattern
\* of parseLRCLyrics matches; seconds in tenths
TaggedLine(minutes, seconds, text) ==
    [tagged |-> TRUE, minutes |-> minutes, seconds |-> seconds, text |-> text]

\* a line the pattern does not match
PlainLine(text) ==
    [tagged |-> FALSE, minutes |-> 0, seconds |-> 0, text |-> text]

\* lines.join('\n')
RECURSIVE join(_)
join(lines) ==
    IF lines = <<>> THEN <<>>
    ELSE IF Len(lines) = 1 THEN lines[1]
    ELSE lines[1] \o <<"\n">> \o join(Tail(lines))

\* text.split('\n')
RECURSIVE split(_)
split(text) ==
    LET breaks == {k \in 1..Len(text) : text[k] = "\n"}
        first  == CHOOSE k \in breaks : \A j \in breaks : k <= j
    IN  IF breaks = {} THEN <<text>>
        ELSE <<SubSeq(text, 1, first - 1)>>
             \o split(SubSeq(text, first + 1, Len(text)))

\* the entries parseLRCLyrics pushes: one for every matched line whose
\* trimmed text is not empty, time = minutes * 60 + seconds
pushedLines(lrcText) ==
    LET kept == SelectSeq(lrcText,
                    LAMBDA line : line.tagged /\ trim(line.text) # <<>>)
    IN  [k \in 1..Len(kept) |->
            [time |-> kept[k].minutes * 60 * Second + kept[k].seconds,
             text |-> trim(kept[k].text)]]

\* a parser that keeps the lines in the order of the source
sortByTimeKeepsOrder(list) == list

\* syncedLyrics.sort((a, b) => a.time - b.time): ascending and stable
RECURSIVE sortByTime(_)
sortByTime(list) ==
    IF list = <<>> THEN <<>>
    ELSE LET sorted == sortByTime(SubSeq(list, 1, Len(list) - 1))
             x      == list[Len(list)]
             before == Cardinality({k \in 1..Len(sorted) : sorted[k].time <= x.time})
         IN  SubSeq(sorted, 1, before) \o <<x>>
             \o SubSeq(sorted, before + 1, Len(sorted))

\* the value parseLRCLyrics returns when lrcText is null or ''
NotAvailable ==
    <<"L","y","r","i","c","s"," ","n","o","t"," ","a","v","a","i","l","a","b","l","e">>

\* the text parseLRCLyrics returns for a source that is not null or '': the
\* texts of the synced lines, or the source without its tags, trimmed
parsedText(lrcText) ==
    LET synced == sortByTime(pushedLines(lrcText))
    IN  IF synced # <<>>
        THEN join([k \in 1..Len(synced) |-> synced[k].text])
        ELSE trim(join([k \in 1..Len(lrcText) |-> lrcText[k].text]))

\* processLyrics: lyricsText.split('\n').filter(line => line.trim())
plainLines(lyricsText) ==
    SelectSeq(split(lyricsText), LAMBDA line : trim(line) # <<>>)

(***************************************************************************)
(* LyricsManager: display                                                  *)
(***************************************************************************)
\* setLyricsText(text)
textContent(text) == [kind |-> "text", body |-> <<text>>, active |-> -1]

\* displayPlainLyrics
plainContent(lines) == [kind |-> "plain", body |-> lines, active |-> -1]

\* displaySyncedLyrics: nothing is written for an empty list; the line of
\* index 0 gets the class 'active'
syncedContent(list, content) ==
    IF Len(list) > 0 THEN [kind |-> "synced", body |-> list, active |-> 0]
    ELSE content

\* the class 'active' is removed from every line and given to the element
\* with data-index = index, when there is one
activeContent(content, index) ==
    [content EXCEPT !.active =
        IF content.kind = "synced" /\ index >= 0 /\ index < Len(content.body)
        THEN index ELSE -1]

(***************************************************************************)
(* LyricsManager: inputs                                                   *)
(***************************************************************************)
\* largest absolute value of lyricsOffset that is explored, in tenths
MaxOffset == 10

\* arguments of adjustOffset: -0.5 s and +1.0 s
Deltas == {-5, 10}

\* arguments of updateSyncedLyrics: 0 s, 0.5 s, 1 s, 2 s and 60 s
Times == {0, 5, 10, 20, 600}

\* "[00:01.0]a\n[00:01.0]b": two lines of the same time
SourceTied ==
    <<TaggedLine(0, 10, <<"a">>), TaggedLine(0, 10, <<"b">>)>>

\* "[01:00.0]c\n[00:01.0] a\n[00:01.0] ": not in order of time, the last
\* line of the tied pair has a blank text
SourceUnsorted ==
    <<TaggedLine(1, 0, <<"c">>), TaggedLine(0, 10, <<" ","a">>),
      TaggedLine(0, 10, <<" ">>)>>

\* "x": no time tag at all
SourceUntagged == <<PlainLine(<<"x">>)>>

\* "[00:01.0] ": a tag and nothing else
SourceBlank == <<TaggedLine(0, 10, <<" ">>)>>

\* syncedLyrics of the answer is null or ''
SourceMissing == <<>>

LrcSources ==
    {SourceTied, SourceUnsorted, SourceUntagged, SourceBlank, SourceMissing}

\* plain lyrics: "x\n \ny" and "z"
PlainTexts == {<<"x","\n"," ","\n","y">>, <<"z">>}

lyricsProviders == <<"lyrics.ovh", "some-random-api", "lrclib.net">>

\* what fetchFromProvider gets from a provider: the fetch rejects or the
\* status is not 2xx ("error"), no lyrics in the answer ("none"), plain
\* lyrics, or (lrclib only) a first record with its syncedLyrics
ProviderOutcomes(provider) ==
    {[kind |-> "error", body |-> <<>>], [kind |-> "none", body |-> <<>>]}
    \cup (IF provider = "lrclib.net"
          THEN {[kind |-> "lrc", body |-> src] : src \in LrcSources}
          ELSE {[kind |-> "plain", body |-> text] : text \in PlainTexts})

(***************************************************************************)
(* LyricsManager: operations                                               *)
(***************************************************************************)
\* the loop of updateSyncedLyrics: from the last entry down, the first index
\* (counted from 0) whose time is not after adjustedTime; -1 when none
RECURSIVE scanFrom(_, _, _)
scanFrom(list, adjustedTime, i) ==
    IF i < 0 THEN -1
    ELSE IF adjustedTime >= list[i + 1].time THEN i
    ELSE scanFrom(list, adjustedTime, i - 1)

\* a loop that runs from the first entry up
newLineIndexFromStart(list, adjustedTime) ==
    LET hits == {i \in 0..(Len(list) - 1) : adjustedTime >= list[i + 1].time}
    IN  IF hits = {} THEN -1
        ELSE CHOOSE i \in hits : \A j \in hits : i <= j

newLineIndex(list, adjustedTime) == scanFrom(list, adjustedTime, Len(list) - 1)

\* an update that renders on every call
UpdateSyncedLyricsAlways(currentTime) ==
    /\ IF ~isSynced \/ Len(syncedLyrics) = 0
       THEN /\ call' = [op |-> "updateSyncedLyrics", arg |-> currentTime,
                        ret |-> FALSE]
            /\ UNCHANGED <<currentLine, lyricsContainer>>
       ELSE /\ lyricsContainer' =
                   activeContent(lyricsContainer,
                       newLineIndex(syncedLyrics, currentTime + lyricsOffset))
            /\ currentLine' = newLineIndex(syncedLyrics, currentTime + lyricsOffset)
            /\ call' = [op |-> "updateSyncedLyrics", arg |-> currentTime,
                        ret |-> TRUE]
    /\ UNCHANGED <<lyrics, syncedLyrics, isSynced, lyricsOffset, lyricsCache,
                   lyricsPc>>

\* updateSyncedLyrics(currentTime); call.ret tells whether the lines were
\* rendered again
UpdateSyncedLyrics(currentTime) ==
    /\ IF ~isSynced \/ Len(syncedLyrics) = 0
       THEN /\ call' = [op |-> "updateSyncedLyrics", arg |-> currentTime,
                        ret |-> FALSE]
            /\ UNCHANGED <<currentLine, lyricsContainer>>
       ELSE IF newLineIndex(syncedLyrics, currentTime + lyricsOffset) # currentLine
       THEN /\ lyricsContainer' =
                   activeContent(lyricsContainer,
                       newLineIndex(syncedLyrics, currentTime + lyricsOffset))
            /\ currentLine' = newLineIndex(syncedLyrics, currentTime + lyricsOffset)
            /\ call' = [op |-> "updateSyncedLyrics", arg |-> currentTime,
                        ret |-> TRUE]
       ELSE /\ call' = [op |-> "updateSyncedLyrics", arg |-> currentTime,
                        ret |-> FALSE]
            /\ UNCHANGED <<currentLine, lyricsContainer>>
    /\ UNCHANGED <<lyrics, syncedLyrics, isSynced, lyricsOffset, lyricsCache,
                   lyricsPc>>

\* an adjustOffset that stores the delta instead of adding it
AdjustOffsetAssign(seconds) ==
    /\ seconds >= -MaxOffset /\ seconds <= MaxOffset
    /\ lyricsOffset' = seconds
    /\ call' = [op |-> "adjustOffset", arg |-> seconds, ret |-> seconds]
    /\ UNCHANGED <<lyrics, syncedLyrics, currentLine, isSynced, lyricsContainer,
                   lyricsCache, lyricsPc>>

\* adjustOffset(seconds): returns the new offset
AdjustOffset(seconds) ==
    /\ lyricsOffset + seconds >= -MaxOffset
    /\ lyricsOffset + seconds <= MaxOffset
    /\ lyricsOffset' = lyricsOffset + seconds
    /\ call' = [op |-> "adjustOffset", arg |-> seconds,
                ret |-> lyricsOffset + seconds]
    /\ UNCHANGED <<lyrics, syncedLyrics, currentLine, isSynced, lyricsContainer,
                   lyricsCache, lyricsPc>>

ResetOffset ==
    /\ lyricsOffset' = 0
    /\ call' = [op |-> "resetOffset", arg |-> <<>>, ret |-> <<>>]
    /\ UNCHANGED <<lyrics, syncedLyrics, currentLine, isSynced, lyricsContainer,
                   lyricsCache, lyricsPc>>

\* fetchLyrics('') : "No song selected"
FetchLyricsNoTitle ==
    /\ lyricsContainer' = textContent("No song selected")
    /\ call' = [op |-> "fetchLyrics", arg |-> <<>>, ret |-> FALSE]
    /\ UNCHANGED <<lyrics, syncedLyrics, currentLine, isSynced, lyricsOffset,
                   lyricsCache, lyricsPc>>

\* fetchLyrics(title, artist) up to the first `await fetchFromProvider`
FetchLyrics ==
    /\ lyricsPc = "idle"
    /\ lyricsContainer' = textContent("Loading lyrics...")
    /\ lyricsPc' = lyricsProviders[1]
    /\ call' = [op |-> "fetchLyrics", arg |-> <<>>, ret |-> "pending"]
    /\ UNCHANGED <<lyrics, syncedLyrics, currentLine, isSynced, lyricsOffset,
                   lyricsCache>>

\* the provider after this one in lyricsProviders, "idle" after the last
nextProvider(provider) ==
    LET k == CHOOSE j \in 1..Len(lyricsProviders) : lyricsProviders[j] = provider
    IN  IF k < Len(lyricsProviders) THEN lyricsProviders[k + 1] ELSE "idle"

\* the answer of the awaited provider: fetchFromProvider (for lrclib with
\* parseLRCLyrics), then processLyrics and `return true` when it gave a
\* text, else the next provider, and after the last one searchLyrics (which
\* gives null) and "Lyrics not available for this song".
\* call.ret: "true", "false", or "continue" for the next provider.
ProviderResponse(outcome) ==
    LET parsing    == outcome.kind = "lrc" /\ outcome.body # <<>>
        synced     == IF parsing THEN sortByTime(pushedLines(outcome.body))
                      ELSE syncedLyrics
        flag       == IF parsing THEN Len(synced) > 0 ELSE isSynced
        lyricsText == IF outcome.kind = "plain" THEN outcome.body
                      ELSE IF parsing THEN parsedText(outcome.body)
                      ELSE IF outcome.kind = "lrc" THEN NotAvailable
                      ELSE <<>>
    IN  /\ lyricsPc # "idle"
        /\ outcome \in ProviderOutcomes(lyricsPc)
        /\ syncedLyrics' = synced
        /\ isSynced' = flag
        /\ IF lyricsText # <<>>
           THEN /\ lyrics' = IF flag THEN lyrics ELSE plainLines(lyricsText)
                /\ lyricsContainer' =
                       IF flag THEN syncedContent(synced, lyricsContainer)
                       ELSE plainContent(plainLines(lyricsText))
                /\ lyricsPc' = "idle"
                /\ call' = [op |-> "fetchFromProvider", arg |-> outcome,
                            ret |-> "true"]
           ELSE /\ lyrics' = lyrics
                /\ lyricsPc' = nextProvider(lyricsPc)
                /\ lyricsContainer' =
                       IF nextProvider(lyricsPc) = "idle"
                       THEN textContent("Lyrics not available for this song")
                       ELSE lyricsContainer
                /\ call' = [op |-> "fetchFromProvider", arg |-> outcome,
                            ret |-> IF nextProvider(lyricsPc) = "idle"
                                    THEN "false" ELSE "continue"]
        /\ UNCHANGED <<currentLine, lyricsOffset, lyricsCache>>

\* saveLyricsToCache(title, artist, lyrics)
SaveLyricsToCache(text) ==
    /\ lyricsCache' = [present |-> TRUE, lyrics |-> text, isSynced |-> isSynced,
                       syncedLyrics |-> syncedLyrics]
    /\ call' = [op |-> "saveLyricsToCache", arg |-> text, ret |-> <<>>]
    /\ UNCHANGED <<lyrics, syncedLyrics, currentLine, isSynced, lyricsOffset,
                   lyricsContainer, lyricsPc>>

\* loadLyricsFromCache(title, artist); fresh: the entry is less than 30 days
\* old
LoadLyricsFromCache(fresh) ==
    /\ IF lyricsCache.present /\ fresh
       THEN /\ lyrics' = split(lyricsCache.lyrics)
            /\ isSynced' = lyricsCache.isSynced
            /\ syncedLyrics' = lyricsCache.syncedLyrics
            /\ lyricsContainer' =
                   IF lyricsCache.isSynced
                   THEN syncedContent(lyricsCache.syncedLyrics, lyricsContainer)
                   ELSE plainContent(split(lyricsCache.lyrics))
            /\ call' = [op |-> "loadLyricsFromCache", arg |-> fresh, ret |-> TRUE]
       ELSE /\ call' = [op |-> "loadLyricsFromCache", arg |-> fresh, ret |-> FALSE]
            /\ UNCHANGED <<lyrics, isSynced, syncedLyrics, lyricsContainer>>
    /\ UNCHANGED <<currentLine, lyricsOffset, lyricsCache, lyricsPc>>

(***************************************************************************)
(* AudioVisualizer                                                         *)
(***************************************************************************)
\* the number of requestAnimationFrame calls that are explored
MaxFrameHandles == 8

\* what connect(audioElement) meets: no element given, an element that
\* createMediaElementSource rejects (it already feeds another source node),
\* an element it accepts
ConnectOutcomes == {"noElement", "throws", "connected"}

\* cancelAnimationFrame(id)
cancelAnimationFrame(id, pending) == pending \ {id}

\* visualize(), called with isPlaying = playing, analyser non-null iff
\* hasAnalyser, animationId = id and the callbacks of pending waiting: it
\* returns at once, or requests the next frame and keeps its handle
visualize(playing, hasAnalyser, id, pending) ==
    IF ~playing \/ ~hasAnalyser
    THEN /\ animationId' = id
         /\ pendingFrames' = pending
         /\ UNCHANGED lastFrameHandle
    ELSE /\ lastFrameHandle < MaxFrameHandles
         /\ lastFrameHandle' = lastFrameHandle + 1
         /\ animationId' = lastFrameHandle + 1
         /\ pendingFrames' = pending \cup {lastFrameHandle + 1}

\* a startVisualization that does not cancel the frame it has requested
startVisualizationNoCancel(hasAnalyser) ==
    /\ isPlaying' = TRUE
    /\ visualize(TRUE, hasAnalyser, animationId, pendingFrames)

\* startVisualization(), with analyser non-null iff hasAnalyser
startVisualization(hasAnalyser) ==
    /\ isPlaying' = TRUE
    /\ visualize(TRUE, hasAnalyser, animationId,
                 IF animationId # NoAnimationId
                 THEN cancelAnimationFrame(animationId, pendingFrames)
                 ELSE pendingFrames)

\* stopVisualization()
stopVisualization ==
    /\ isPlaying' = FALSE
    /\ pendingFrames' = IF animationId # NoAnimationId
                        THEN cancelAnimationFrame(animationId, pendingFrames)
                        ELSE pendingFrames
    /\ animationId' = NoAnimationId
    /\ UNCHANGED lastFrameHandle

\* connect(audioElement)
Connect(outcome) ==
    /\ IF outcome = "noElement"
       THEN /\ visualizerCall' = [op |-> "connect", ran |-> "none"]
            /\ UNCHANGED <<analyser, source, isPlaying, animationId,
                           pendingFrames, lastFrameHandle>>
       ELSE IF outcome = "throws"
       THEN /\ analyser' = TRUE
            /\ visualizerCall' = [op |-> "connect", ran |-> "none"]
            /\ UNCHANGED <<source, isPlaying, animationId, pendingFrames,
                           lastFrameHandle>>
       ELSE /\ analyser' = TRUE
            /\ source' = TRUE
            /\ startVisualization(TRUE)
            /\ visualizerCall' = [op |-> "connect", ran |-> "startVisualization"]

\* disconnect()
Disconnect ==
    /\ stopVisualization
    /\ visualizerCall' = [op |-> "disconnect", ran |-> "stopVisualization"]
    /\ UNCHANGED <<analyser, source>>

StartVisualization ==
    /\ startVisualization(analyser)
    /\ visualizerCall' = [op |-> "startVisualization", ran |-> "startVisualization"]
    /\ UNCHANGED <<analyser, source>>

StopVisualization ==
    /\ stopVisualization
    /\ visualizerCall' = [op |-> "stopVisualization", ran |-> "stopVisualization"]
    /\ UNCHANGED <<analyser, source>>

\* toggle()
Toggle ==
    /\ IF isPlaying
       THEN /\ stopVisualization
            /\ visualizerCall' = [op |-> "toggle", ran |-> "stopVisualization"]
       ELSE /\ startVisualization(analyser)
            /\ visualizerCall' = [op |-> "toggle", ran |-> "startVisualization"]
    /\ UNCHANGED <<analyser, source>>

\* the browser runs the pending callback of handle id: () => this.visualize()
AnimationFrame(id) ==
    /\ id \in pendingFrames
    /\ visualize(isPlaying, analyser, animationId, pendingFrames \ {id})
    /\ visualizerCall' = [op |-> "animationFrame", ran |-> "visualize"]
    /\ UNCHANGED <<analyser, source, isPlaying>>

(***************************************************************************)
(* Specifications                                                          *)
(***************************************************************************)
\* direct calls and the buttons of the error view, two queries, every kind
\* of response
Next ==
    \/ \E arg \in QueryArgs : SearchCall(arg) /\ UNCHANGED besideSearch
    \/ RetrySearch /\ UNCHANGED besideSearch
    \/ ClearSearch /\ UNCHANGED besideSearch
    \/ \E i \in Slots, r \in Responses : Respond(i, r) /\ UNCHANGED besideSearch
    \/ \E i \in Slots : PrimaryResponse(i) /\ UNCHANGED besideSearch
    \/ Tick /\ UNCHANGED besideSearch
    \/ \E i \in Slots : TimerFire(i) /\ UNCHANGED besideSearch
    \/ \E i \in Slots : AltResponse(i) /\ UNCHANGED besideSearch

Spec == Init /\ [][Next]_vars

\* four overlapping invocations, failing and succeeding requests
InitOverlap == InitWith(MaxOverlap)

OverlapResponses == {"http"}

NextOverlap ==
    \/ SearchCall(QueryA) /\ UNCHANGED besideSearch
    \/ \E i \in Slots, r \in OverlapResponses : Respond(i, r) /\ UNCHANGED besideSearch
    \/ \E i \in Slots : PrimaryResponse(i) /\ UNCHANGED besideSearch
    \/ Tick /\ UNCHANGED besideSearch
    \/ \E i \in Slots : TimerFire(i) /\ UNCHANGED besideSearch
    \/ \E i \in Slots : AltResponse(i) /\ UNCHANGED besideSearch

SpecOverlap == InitOverlap /\ [][NextOverlap]_vars

\* one invocation at a time, driven through the page: typing, the debounce
\* timer, the search button, voice input, the buttons of the result views,
\* and direct calls with a blank or missing argument
InitPage == InitWith(MaxPageInvocations)

InputValues == {<<>>, Blank, <<"a">>, QueryC, <<" ">> \o QueryC \o <<" ">>}

PageArgs == {NoArg, Blank, QueryC, QueryD}

PageResponses == {"net", "empty", "results"}

NextPage ==
    \/ \E v \in InputValues : InputEvent(v) /\ UNCHANGED besideSearch
    \/ DebounceFire /\ UNCHANGED besideSearch
    \/ SearchBtnClick /\ UNCHANGED besideSearch
    \/ VoiceResult(QueryC) /\ UNCHANGED besideSearch
    \/ \E arg \in PageArgs : SearchCall(arg) /\ UNCHANGED besideSearch
    \/ RetrySearch /\ UNCHANGED besideSearch
    \/ \E k \in 1..MaxTrending : SearchTrending(k) /\ UNCHANGED besideSearch
    \/ ClearSearch /\ UNCHANGED besideSearch
    \/ \E i \in Slots, r \in PageResponses : Respond(i, r) /\ UNCHANGED besideSearch
    \/ \E i \in Slots : PrimaryResponse(i) /\ UNCHANGED besideSearch
    \/ Tick /\ UNCHANGED besideSearch
    \/ \E i \in Slots : TimerFire(i) /\ UNCHANGED besideSearch
    \/ \E i \in Slots : AltResponse(i) /\ UNCHANGED besideSearch

SpecPage == InitPage /\ [][NextPage]_vars

\* one invocation whose primary request fails, over queries put together
\* from a leading word, a title, a trailing word and parenthesized segments
InitAlt == InitWith(1)

AltLeads ==
    {<<>>, <<"s","o","n","g"," ">>, <<"A","u","d","i","o"," ">>,
     <<"m","u","s","i","c"," ">>}

AltTitles == {<<>>, <<"I","m","a","g","i","n","e">>, <<"a">>}

AltTrails ==
    {<<>>, <<" ","s","o","n","g">>, <<" ","L","Y","R","I","C","S">>,
     <<" ">> \o suffixes[6]}

AltSegments ==
    {<<>>, <<" ","(","f","e","a","t","."," ","X",")">>,
     <<" ","(","W","i","t","h"," ","y",")">>,
     <<" ","(","f","e","a","t","."," ","X",")"," ","(","w","i","t","h"," ","y",")">>}

AltQueries ==
    {lead \o title \o trail \o segment :
        lead \in AltLeads, title \in AltTitles, trail \in AltTrails,
        segment \in AltSegments}

NextAlt ==
    \/ \E arg \in AltQueries : SearchCall(arg) /\ UNCHANGED besideSearch
    \/ \E i \in Slots, r \in OverlapResponses : Respond(i, r) /\ UNCHANGED besideSearch
    \/ \E i \in Slots : PrimaryResponse(i) /\ UNCHANGED besideSearch
    \/ Tick /\ UNCHANGED besideSearch
    \/ \E i \in Slots : TimerFire(i) /\ UNCHANGED besideSearch

SpecAlt == InitAlt /\ [][NextAlt]_vars

\* overlapping invocations whose requests are all answered, with a failure
\* or with results, and whose continuations and timers all run; LiveQuery
\* has the longest list of alternatives (nine)
MaxLiveInvocations == 2

InitLive == InitWith(MaxLiveInvocations)

LiveQuery ==
    <<"m","u","s","i","c"," ","a"," ","(","f","e","a","t","."," ","X",")">>

LiveQueries == {QueryC, LiveQuery}

LiveResponses == {"http", "results"}

NextLive ==
    \/ \E arg \in LiveQueries : SearchCall(arg) /\ UNCHANGED besideSearch
    \/ \E i \in Slots, r \in LiveResponses : Respond(i, r) /\ UNCHANGED besideSearch
    \/ \E i \in Slots : PrimaryResponse(i) /\ UNCHANGED besideSearch
    \/ Tick /\ UNCHANGED besideSearch
    \/ \E i \in Slots : TimerFire(i) /\ UNCHANGED besideSearch
    \/ \E i \in Slots : AltResponse(i) /\ UNCHANGED besideSearch

\* the step invocation i is waiting for while its request is pending or
\* answered: the answer, or the continuation after the answer
InvocationStep(i) ==
    \/ \E r \in LiveResponses : Respond(i, r)
    \/ PrimaryResponse(i)
    \/ AltResponse(i)

\* TimerFire(i) is enabled
timerDue(i) == pc[i] = "backoff" /\ timerElapsed(i)

\* every request is answered; the event loop runs every continuation that is
\* ready and every timer callback that is due.  The weak fairness of
\* TimerFire(i) is written out with timerDue(i) for its enabling condition.
FairLive ==
    /\ WF_vars(Tick /\ UNCHANGED besideSearch)
    /\ \A i \in 1..MaxLiveInvocations :
          /\ WF_vars(InvocationStep(i) /\ UNCHANGED besideSearch)
          /\ \/ []<>(~timerDue(i))
             \/ []<><<TimerFire(i) /\ UNCHANGED besideSearch>>_vars

SpecLive == InitLive /\ [][NextLive]_vars /\ FairLive

\* the lyrics panel: fetches through the three providers, the cache, time
\* updates and offset changes; no search is running
InitLyrics == InitWith(0)

NextLyrics ==
    \/ FetchLyricsNoTitle /\ UNCHANGED besideLyrics
    \/ FetchLyrics /\ UNCHANGED besideLyrics
    \/ \E provider \in {"lyrics.ovh", "some-random-api", "lrclib.net"} :
          \E outcome \in ProviderOutcomes(provider) :
             ProviderResponse(outcome) /\ UNCHANGED besideLyrics
    \/ \E text \in PlainTexts : SaveLyricsToCache(text) /\ UNCHANGED besideLyrics
    \/ \E fresh \in BOOLEAN : LoadLyricsFromCache(fresh) /\ UNCHANGED besideLyrics
    \/ \E currentTime \in Times : UpdateSyncedLyrics(currentTime) /\ UNCHANGED besideLyrics
    \/ \E seconds \in Deltas : AdjustOffset(seconds) /\ UNCHANGED besideLyrics
    \/ ResetOffset /\ UNCHANGED besideLyrics

SpecLyrics == InitLyrics /\ [][NextLyrics]_vars

\* the visualizer: connects, starts, stops, toggles, disconnects and the
\* browser's animation frames; no search and no lyrics fetch is running
InitVisualizer == InitWith(0)

NextVisualizer ==
    \/ \E outcome \in ConnectOutcomes : Connect(outcome) /\ UNCHANGED besideVisualizer
    \/ Disconnect /\ UNCHANGED besideVisualizer
    \/ StartVisualization /\ UNCHANGED besideVisualizer
    \/ StopVisualization /\ UNCHANGED besideVisualizer
    \/ Toggle /\ UNCHANGED besideVisualizer
    \/ \E id \in pendingFrames : AnimationFrame(id) /\ UNCHANGED besideVisualizer

SpecVisualizer == InitVisualizer /\ [][NextVisualizer]_vars

(***************************************************************************)
(* Properties of the search flow                                           *)
(***************************************************************************)
\* C1: a search whose requests all fail ends Failed only after
\* maxSearchRetries retry rounds: when an invocation displays the error
\* view, the retry counter has reached maxSearchRetries and the wait before
\* its last round was that of attempt maxSearchRetries (4000 ms).
C1_FailedAfterMaxRetryRounds ==
    [][\A i \in Slots :
          (pc[i] # "idle" /\ pc'[i] = "idle" /\ results'.view = "error")
              => /\ searchRetryCount' = maxSearchRetries
                 /\ delay[i] = Min(BaseDelayMs * Pow2(maxSearchRetries - 1),
                                   MaxDelayMs)]_vars

\* C2: while an invocation for q is in its retry phase (waiting or trying
\* alternatives), no further invocation for the same q is accepted.
C2_DuplicateSuppressedWhileRetrying ==
    [][\A i, j \in Slots :
          (i # j /\ pc[i] \in {"backoff", "alt"}
                 /\ pc[j] = "idle" /\ pc'[j] = "primary")
              => queryText'[j] # queryText[i]]_vars

\* C3: once the error view for q is shown and no invocation is left, a
\* search(q) or retrySearch(q) is not suppressed by the duplicate guard.
C3_RetryAfterFailedNotSuppressed ==
    (results.view = "error" /\ Active = {}) => ~isDuplicate(results.query)

\* C4: no invocation gets past the validation with a query that is empty or
\* whitespace only, and such a query never becomes lastSearchQuery.
C4_BlankQueryRejected ==
    /\ \A i \in Active : trim(queryText[i]) # <<>>
    /\ trim(lastSearchQuery) = <<>> => lastSearchQuery = <<>>

\* C5: when the handled response of the primary request is a success with
\* an empty list, the invocation ends at once with the no-results view for
\* its query: the retry counter is 0, no backoff timer is set, no request is
\* pending for it, no other invocation is started and the input is untouched.
C5_EmptySuccessEndsInNoResults ==
    [][\A i \in Slots :
          (pc[i] = "primary" /\ response[i] = "empty" /\ pc'[i] # "primary")
              => /\ pc'[i] = "idle"
                 /\ results' = [view |-> "noresults", query |-> queryText[i],
                                error |-> "none"]
                 /\ searchRetryCount' = 0
                 /\ remaining' = remaining
                 /\ reqQuery'[i] = <<>>
                 /\ response'[i] = "none"
                 /\ Active' = Active \ {i}
                 /\ searchInput' = searchInput]_vars

\* C5 witness: a lone invocation whose primary request has been answered
\* with an empty success, the answer about to be handled
C5_Witness ==
    \E i \in Slots :
        /\ Active = {i}
        /\ pc[i] = "primary"
        /\ response[i] = "empty"
        /\ searchRetryCount = 0

\* C6: an invocation that enters its wait after failure number n waits
\* min(1000 * 2^(n-1), 5000) ms; while it waits it has no request pending;
\* it leaves the wait only for the first alternative and only when nothing
\* of the delay is left; the time left only goes down, by the time passed.
C6_BackoffWaitsInFull ==
    [][\A i \in Slots :
          /\ (pc[i] = "primary" /\ pc'[i] = "backoff")
                => /\ searchRetryCount' = searchRetryCount + 1
                   /\ delay'[i] = Min(BaseDelayMs * Pow2(searchRetryCount' - 1),
                                      MaxDelayMs)
                   /\ remaining'[i] = delay'[i]
          /\ pc'[i] = "backoff"
                => /\ response'[i] = "none"
                   /\ reqQuery'[i] = <<>>
          /\ (pc[i] = "backoff" /\ pc'[i] = "backoff")
                => /\ delay'[i] = delay[i]
                   /\ remaining'[i] <= remaining[i]
                   /\ remaining[i] - remaining'[i] <= BaseDelayMs
          /\ (pc[i] = "backoff" /\ pc'[i] # "backoff")
                => /\ remaining[i] = 0
                   /\ pc'[i] = "alt"
                   /\ response'[i] = "pending"]_vars

\* C6 witness: an invocation that has waited the 4000 ms of attempt 3 in
\* full and has its first alternative pending
C6_Witness ==
    \E i \in Slots :
        /\ pc[i] = "alt"
        /\ delay[i] = 4000
        /\ remaining[i] = 0
        /\ altIdx[i] = 1
        /\ response[i] = "pending"

\* C7: the round starts with the first entry of the generated list; the
\* pending request of a round is always for the entry at the loop's
\* position; a failed alternative leaves the retry counter alone and is
\* followed by the next entry, or by the error view after the last entry; an
\* alternative that does not fail ends the invocation with its result; the
\* retry counter grows only when a primary request fails, and then by one.
C7_AlternativesInOrderOneAttempt ==
    [][\A i \in Slots :
          /\ (pc[i] = "backoff" /\ pc'[i] = "alt")
                => /\ alternativeQueries'[i] = generateAlternativeQueries(queryText[i])
                   /\ altIdx'[i] = 1
          /\ pc'[i] = "alt"
                => /\ altIdx'[i] \in 1..Len(alternativeQueries'[i])
                   /\ reqQuery'[i] = alternativeQueries'[i][altIdx'[i]]
          /\ (pc[i] = "alt" /\ pc'[i] = "alt")
                => /\ alternativeQueries'[i] = alternativeQueries[i]
                   /\ altIdx'[i] \in {altIdx[i], altIdx[i] + 1}
          /\ (pc[i] = "alt" /\ response[i] \in Errors /\ response'[i] # response[i])
                => /\ searchRetryCount' = searchRetryCount
                   /\ IF altIdx[i] < Len(alternativeQueries[i])
                      THEN pc'[i] = "alt" /\ altIdx'[i] = altIdx[i] + 1
                      ELSE pc'[i] = "idle" /\ results'.view = "error"
          /\ (pc[i] = "alt" /\ response[i] \in {"results", "empty"}
                            /\ response'[i] # response[i])
                => /\ pc'[i] = "idle"
                   /\ results'.view \in {"results", "noresults"}
                   /\ results'.query = reqQuery[i]
          /\ searchRetryCount' > searchRetryCount
                => /\ searchRetryCount' = searchRetryCount + 1
                   /\ \E j \in Slots : pc[j] = "primary" /\ pc'[j] # "primary"]_vars

\* C7 witness: a round has failed on every alternative but its last, whose
\* failure has arrived, and the retry counter still shows one attempt
C7_Witness ==
    \E i \in Slots :
        /\ Active = {i}
        /\ pc[i] = "alt"
        /\ altIdx[i] = Len(alternativeQueries[i])
        /\ altIdx[i] > 1
        /\ response[i] \in Errors
        /\ searchRetryCount = 1

\* C8: the error shown by the error view is the error of the invocation's
\* most recent failed request, the one whose failure ends the invocation.
C8_FailedCarriesLastError ==
    [][\A i \in Slots :
          (pc[i] # "idle" /\ pc'[i] = "idle" /\ results'.view = "error")
              => results'.error = response[i]]_vars

\* C9: at most one search() invocation is awaiting a response or a backoff
\* delay.
C9_AtMostOneActiveSearch == Cardinality(Active) <= 1

\* C10: the retry counter never exceeds maxSearchRetries.
C10_RetryCountBounded == searchRetryCount <= maxSearchRetries

\* C18: a successful response is displayed for the query of its own request
\* whatever lastSearchQuery and the displayed results are; so the response
\* of an earlier search that arrives after a newer search has displayed its
\* results replaces them.
C18_ResponseDisplayedWhateverIsCurrent ==
    [][\A i \in Slots :
          (pc[i] # "idle" /\ response[i] \in {"results", "empty"}
                          /\ pc'[i] = "idle")
              => results' = [view |-> IF response[i] = "results"
                                      THEN "results" ELSE "noresults",
                             query |-> reqQuery[i], error |-> "none"]]_vars

\* C18 witness: the newer search(QueryB) has ended and its results are
\* displayed, and the results of the earlier search(QueryA) have arrived
\* and are about to be displayed
C18_Witness ==
    \E i \in Slots :
        /\ Active = {i}
        /\ pc[i] = "primary"
        /\ queryText[i] = QueryA
        /\ response[i] = "results"
        /\ lastSearchQuery = QueryB
        /\ results.view = "results"
        /\ results.query = QueryB

\* C20: an accepted query that is not blank never leads to a request with
\* an empty query text.
C20_NoRequestWithEmptyQuery ==
    \A i \in Active :
        (trim(queryText[i]) # <<>> /\ response[i] # "none") => reqQuery[i] # <<>>

\* C17: the list generated for a query starts with the query itself, has no
\* entry twice, and holds the first occurrences, in their order, of: the
\* query, the query with each suffix it does not contain (in the order of
\* the suffix list), the query without its leading prefix when that differs,
\* the query without its (feat. ...)/(with ...) segments when that differs;
\* for "Imagine (feat. X)" it holds the query, the query with " song" and
\* "Imagine".
C17_AlternativesOrderedNoDuplicates ==
    \A i \in Slots :
        pc[i] = "alt" =>
            LET q       == queryText[i]
                res     == alternativeQueries[i]
                lowered == toLowerCase(q)
                missing == SelectSeq(suffixes,
                              LAMBDA suffix : ~includes(lowered, suffix))
                raw     == <<q>>
                           \o [k \in 1..Len(missing) |-> q \o <<" ">> \o missing[k]]
                           \o (IF cleanedQuery(q) # q
                               THEN <<cleanedQuery(q)>> ELSE <<>>)
                           \o (IF withoutFeatured(q) # q
                               THEN <<withoutFeatured(q)>> ELSE <<>>)
                first(x) == CHOOSE k \in 1..Len(raw) :
                                raw[k] = x /\ \A j \in 1..(k - 1) : raw[j] # x
                imagine == <<"I","m","a","g","i","n","e">>
                featX   == <<" ","(","f","e","a","t","."," ","X",")">>
            IN  /\ Len(res) >= 1
                /\ res[1] = q
                /\ \A a, b \in 1..Len(res) : a # b => res[a] # res[b]
                /\ \A a \in 1..Len(res) : \E k \in 1..Len(raw) : raw[k] = res[a]
                /\ \A k \in 1..Len(raw) : \E a \in 1..Len(res) : res[a] = raw[k]
                /\ \A a, b \in 1..Len(res) :
                      a < b => first(res[a]) < first(res[b])
                /\ q = imagine \o featX
                      => /\ \E a \in 1..Len(res) : res[a] = imagine \o featX
                         /\ \E a \in 1..Len(res) :
                               res[a] = imagine \o featX \o <<" ","s","o","n","g">>
                         /\ \E a \in 1..Len(res) : res[a] = imagine

\* C17 witness: the list has been generated for "Imagine (feat. X)" and
\* has the eight entries original, six suffix variants, "Imagine"
C17_Witness ==
    \E i \in Slots :
        /\ pc[i] = "alt"
        /\ queryText[i] = <<"I","m","a","g","i","n","e"," ","(","f","e","a","t",
                             "."," ","X",")">>
        /\ Len(alternativeQueries[i]) = 8
        /\ alternativeQueries[i][8] = <<"I","m","a","g","i","n","e">>

(***************************************************************************)
(* Properties of the lyrics display                                        *)
(***************************************************************************)
\* C11: after updateSyncedLyrics(t) on a synced, non-empty lyric set the
\* current line is the greatest index whose time is at most t + offset, -1
\* when there is none, and the last index when t + offset is at or after the
\* last time.
C11_UpdateSelectsGreatestPassedIndex ==
    [][(call'.op = "updateSyncedLyrics" /\ isSynced /\ syncedLyrics # <<>>)
          => LET adjusted == call'.arg + lyricsOffset
                 passed   == {i \in 0..(Len(syncedLyrics) - 1) :
                                 syncedLyrics[i + 1].time <= adjusted}
             IN  /\ passed = {} => currentLine' = -1
                 /\ passed # {} => /\ currentLine' \in passed
                                   /\ \A j \in passed : j <= currentLine'
                 /\ adjusted >= syncedLyrics[Len(syncedLyrics)].time
                       => currentLine' = Len(syncedLyrics) - 1]_vars

\* C11 witness: with a non-zero offset, an update at a time after the last
\* line has selected the last of two lines
C11_Witness ==
    /\ call.op = "updateSyncedLyrics"
    /\ isSynced
    /\ Len(syncedLyrics) = 2
    /\ lyricsOffset = -5
    /\ call.arg + lyricsOffset > syncedLyrics[2].time
    /\ currentLine = 1

\* C12 as stated: when the lyric set is the one loaded from a source with
\* several tagged lines of one time, after an update at that time (or past
\* it and before any later line) the current line is the last of those lines
\* in the source.
C12_LastDeclaredTiedLineActive ==
    \A src \in LrcSources :
        (call.op = "updateSyncedLyrics" /\ isSynced
            /\ syncedLyrics = sortByTime(pushedLines(src)))
        => \A k \in 1..Len(src) :
              LET time(j)  == src[j].minutes * 60 * Second + src[j].seconds
                  adjusted == call.arg + lyricsOffset
              IN  (/\ src[k].tagged
                   /\ \E j \in 1..Len(src) : j # k /\ src[j].tagged /\ time(j) = time(k)
                   /\ \A j \in (k + 1)..Len(src) :
                         ~(src[j].tagged /\ time(j) = time(k))
                   /\ time(k) <= adjusted
                   /\ \A j \in 1..Len(src) :
                         src[j].tagged => (time(j) <= time(k) \/ time(j) > adjusted))
                  => /\ currentLine >= 0
                     /\ syncedLyrics[currentLine + 1].text = trim(src[k].text)
                     /\ syncedLyrics[currentLine + 1].time = time(k)

\* C12 narrowed to the lines the parser keeps (tagged lines whose text is
\* not blank): among those of one time the last in the source is current.
C12_LastDeclaredKeptTiedLineActive ==
    \A src \in LrcSources :
        (call.op = "updateSyncedLyrics" /\ isSynced
            /\ syncedLyrics = sortByTime(pushedLines(src)))
        => \A k \in 1..Len(src) :
              LET time(j)  == src[j].minutes * 60 * Second + src[j].seconds
                  kept(j)  == src[j].tagged /\ trim(src[j].text) # <<>>
                  adjusted == call.arg + lyricsOffset
              IN  (/\ kept(k)
                   /\ \E j \in 1..Len(src) : j # k /\ kept(j) /\ time(j) = time(k)
                   /\ \A j \in (k + 1)..Len(src) : ~(kept(j) /\ time(j) = time(k))
                   /\ time(k) <= adjusted
                   /\ \A j \in 1..Len(src) :
                         kept(j) => (time(j) <= time(k) \/ time(j) > adjusted))
                  => /\ currentLine >= 0
                     /\ syncedLyrics[currentLine + 1].text = trim(src[k].text)
                     /\ syncedLyrics[currentLine + 1].time = time(k)

\* C12 witness: the set of "[00:01.0]a" and "[00:01.0]b" is loaded and an
\* update at 1.0 s has made "b" the current line
C12_Witness ==
    /\ call.op = "updateSyncedLyrics"
    /\ isSynced
    /\ syncedLyrics = sortByTime(pushedLines(SourceTied))
    /\ call.arg + lyricsOffset = Second
    /\ currentLine = 1
    /\ syncedLyrics[2].text = <<"b">>

\* C13: the offset starts at 0; adjustOffset(d) adds d and returns the new
\* offset, resetOffset sets it to 0 and nothing else changes it; after
\* adjustOffset(d) an update at any time t selects the index that an update
\* at t + d selected before it.
C13_OffsetAccumulatesAndShifts ==
    /\ lyricsOffset = 0
    /\ [][/\ call'.op = "adjustOffset"
                => /\ lyricsOffset' = lyricsOffset + call'.arg
                   /\ call'.ret = lyricsOffset'
                   /\ \A t \in Times :
                         newLineIndex(syncedLyrics', t + lyricsOffset')
                            = newLineIndex(syncedLyrics, (t + call'.arg) + lyricsOffset)
          /\ call'.op = "resetOffset" => lyricsOffset' = 0
          /\ call'.op \notin {"adjustOffset", "resetOffset"}
                => lyricsOffset' = lyricsOffset]_vars

\* C13 witness: with a synced set loaded, two adjustments (-0.5 s, +1.0 s)
\* have been applied and the second returned their sum
C13_Witness ==
    /\ call.op = "adjustOffset"
    /\ call.arg = 10
    /\ call.ret = 5
    /\ lyricsOffset = 5
    /\ isSynced

\* C14: updateSyncedLyrics stores the index and moves the highlight to the
\* displayed line of that index (to none when no such line is displayed)
\* when the computed index differs from the current line; when the
\* index is the same, or the set is not synced or empty, it changes nothing
\* and highlights nothing.
C14_UpdateChangesOnlyOnNewIndex ==
    [][call'.op = "updateSyncedLyrics"
          => /\ UNCHANGED <<lyrics, syncedLyrics, isSynced, lyricsOffset,
                            lyricsCache, lyricsPc>>
             /\ IF ~isSynced \/ syncedLyrics = <<>>
                THEN /\ ~call'.ret
                     /\ UNCHANGED <<currentLine, lyricsContainer>>
                ELSE LET adjusted == call'.arg + lyricsOffset
                         passed   == {i \in 0..(Len(syncedLyrics) - 1) :
                                         syncedLyrics[i + 1].time <= adjusted}
                         index    == IF passed = {} THEN -1
                                     ELSE CHOOSE i \in passed :
                                              \A j \in passed : j <= i
                     IN  IF index = currentLine
                         THEN /\ ~call'.ret
                              /\ UNCHANGED <<currentLine, lyricsContainer>>
                         ELSE /\ call'.ret
                              /\ currentLine' = index
                              /\ lyricsContainer'.kind = lyricsContainer.kind
                              /\ lyricsContainer'.body = lyricsContainer.body
                              /\ lyricsContainer'.active =
                                    IF /\ lyricsContainer.kind = "synced"
                                       /\ index >= 0
                                       /\ index < Len(lyricsContainer.body)
                                    THEN index ELSE -1]_vars

\* C14 witness: an update on a synced set found the current line unchanged
\* and rendered nothing
C14_Witness ==
    /\ call.op = "updateSyncedLyrics"
    /\ ~call.ret
    /\ isSynced
    /\ syncedLyrics # <<>>
    /\ currentLine >= 0

\* C15: a time-tagged source that is empty, or that has no line the parser
\* keeps, leaves isSynced false and the synced set empty, whatever was
\* loaded before.
C15_UnparseableSourceClearsSyncedSet ==
    [][(/\ call'.op = "fetchFromProvider"
        /\ call'.arg.kind = "lrc"
        /\ pushedLines(call'.arg.body) = <<>>)
          => (~isSynced' /\ syncedLyrics' = <<>>)]_vars

\* C16: when fetchLyrics returns true, a plain-text source leaves no synced
\* lines, isSynced false, and its own lines held and displayed; a source
\* with kept time-tagged lines leaves exactly its lines, sorted, held and
\* displayed.
C16_SuccessfulFetchReplacesLyricSet ==
    [][(call'.op = "fetchFromProvider" /\ call'.ret = "true")
          => /\ call'.arg.kind = "plain"
                  => /\ ~isSynced'
                     /\ syncedLyrics' = <<>>
                     /\ lyrics' = plainLines(call'.arg.body)
                     /\ lyricsContainer' = plainContent(plainLines(call'.arg.body))
             /\ (call'.arg.kind = "lrc" /\ pushedLines(call'.arg.body) # <<>>)
                  => /\ isSynced'
                     /\ syncedLyrics' = sortByTime(pushedLines(call'.arg.body))
                     /\ lyricsContainer'.kind = "synced"
                     /\ lyricsContainer'.body = syncedLyrics']_vars

\* C19: the synced lyric set is sorted ascending by time, and isSynced is
\* true exactly when the set is not empty.
C19_SyncedSetSortedAndFlagged ==
    /\ \A j, k \in 1..Len(syncedLyrics) :
          j < k => syncedLyrics[j].time <= syncedLyrics[k].time
    /\ isSynced <=> syncedLyrics # <<>>

\* C19 witness: a set parsed from a source whose lines are out of order was
\* saved, replaced by another set, and loaded again from the cache
C19_Witness ==
    /\ call.op = "loadLyricsFromCache"
    /\ call.ret
    /\ isSynced
    /\ Len(syncedLyrics) = 2
    /\ syncedLyrics = sortByTime(pushedLines(SourceUnsorted))
    /\ syncedLyrics[1].time < syncedLyrics[2].time

(***************************************************************************)
(* Properties of overlapping searches and of termination                   *)
(***************************************************************************)
\* C21: whenever no invocation has a request that is pending or a response
\* that is not handled yet, the search button is enabled and shows the
\* search icon.
C21_ButtonRestoredWhenNothingInFlight ==
    (\A i \in Slots : response[i] = "none") => searchBtn = SearchIcon

\* C23: when every request is answered, every accepted search() invocation
\* returns; when it returns the loading indicator is off and the results,
\* the no-results view or the error view is shown; every request it issues
\* is its primary request or the request for the next entry of its list of
\* alternatives, which has at most nine entries and is gone through once.
C23_SearchTerminatesWithBoundedRequests ==
    /\ \A i \in 1..MaxLiveInvocations : (pc[i] # "idle") ~> (pc[i] = "idle")
    /\ [][\A i \in Slots :
            /\ (pc[i] # "idle" /\ pc'[i] = "idle")
                  => /\ ~loading'
                     /\ results'.view \in {"results", "noresults", "error"}
            /\ (response[i] # "pending" /\ response'[i] = "pending")
                  => \/ pc[i] = "idle" /\ pc'[i] = "primary"
                     \/ /\ pc'[i] = "alt"
                        /\ altIdx'[i] = altIdx[i] + 1
                        /\ altIdx'[i] <= Len(alternativeQueries'[i])
                        /\ Len(alternativeQueries'[i]) <= 9
            /\ pc'[i] = "primary" => pc[i] \in {"idle", "primary"}
            /\ pc'[i] = "backoff" => pc[i] \in {"primary", "backoff"}
            /\ pc[i] = "alt" => pc'[i] \in {"alt", "idle"}
            /\ pc[i] # "idle" => pc'[i] # "idle" \/ response[i] # "pending"]_vars

\* C23 witness: while another invocation is running, an invocation has
\* issued its primary request and the requests for all nine alternatives,
\* and the last one has failed
C23_Witness ==
    \E i \in Slots :
        /\ Cardinality(Active) = 2
        /\ pc[i] = "alt"
        /\ Len(alternativeQueries[i]) = 9
        /\ altIdx[i] = 9
        /\ response[i] \in Errors

\* C22: right after updateSyncedLyrics(t), when the synced set is the one
\* displayed, the highlighted line is the line of the index the scan
\* computes for t + offset, and no line is highlighted when that index is -1.
C22_HighlightIsComputedIndex ==
    (/\ call.op = "updateSyncedLyrics"
     /\ isSynced
     /\ syncedLyrics # <<>>
     /\ lyricsContainer.kind = "synced"
     /\ lyricsContainer.body = syncedLyrics)
        => lyricsContainer.active = newLineIndex(syncedLyrics, call.arg + lyricsOffset)

(***************************************************************************)
(* Properties of the visualizer                                            *)
(***************************************************************************)
\* C24: at most one animation-frame callback is pending; right after
\* stopVisualization has run (called directly, by toggle or by disconnect)
\* none is pending, isPlaying is false and animationId is null.
C24_AtMostOnePendingFrame ==
    /\ Cardinality(pendingFrames) <= 1
    /\ visualizerCall.ran = "stopVisualization"
          => /\ pendingFrames = {}
             /\ ~isPlaying
             /\ animationId = NoAnimationId

\* C24 witness: frames have been requested and run, the visualization was
\* restarted while a frame was pending, and disconnect has then stopped it
C24_Witness ==
    /\ visualizerCall = [op |-> "disconnect", ran |-> "stopVisualization"]
    /\ analyser
    /\ lastFrameHandle >= 3
    /\ pendingFrames = {}
    /\ ~isPlaying

====
